---- MODULE Spec2Model ----
(***************************************************************************)
(* The nine generated end-to-end scripts under src/testsprite_tests.  Each *)
(* script is one Python process that calls asyncio.run(run_test()) once.   *)
(* run_test acquires a Playwright driver, a browser and a browser context  *)
(* inside a try block, runs a straight-line list of awaited statements and *)
(* releases what it acquired in the finally block.  Every awaited browser  *)
(* call either returns or raises; what it does is the environment's choice.*)
(***************************************************************************)
EXTENDS Integers, Sequences, FiniteSets, TLC

VARIABLES
  script,    \* script[p]: the script file process p executes
  pc,        \* pc[p]: position of process p inside its script
  ip,        \* ip[p]: index of the next statement of the script's body
  frames,    \* frames[p]: frames of page.frames still to be waited for
  pw,        \* pw[p]: local variable pw of run_test (None or a handle)
  browser,   \* browser[p]: local variable browser
  context,   \* context[p]: local variable context
  exc,       \* exc[p]: the exception currently propagating out of run_test
  first,     \* first[p]: the first exception that left the try body
  closes,    \* closes[p]: calls made to context.close / browser.close / pw.stop
  runs,      \* runs[p]: number of times run_test was invoked
  rls,       \* rls[p]: branch taken by TC015's access check
  users,     \* users[q]: processes that acted through the context created by q
  sessions,  \* application data of the one account: sessions this week
  last,      \* last[p]: what the statement p executed last did
  held,      \* held[p]: lines of the assertions of p that held
  app,       \* the application under test: what its pages hold and open
  pages,     \* pages[p]: number of pages in context.pages of process p
  frame      \* frame[p]: local variable frame, an index into context.pages

vars == <<script, pc, ip, frames, pw, browser, context, exc, first, closes,
          runs, rls, users, sessions, last, held, app, pages, frame>>

\* ----------------------------------------------------------------- bounds
\* page.frames after the initial navigation holds between 1 and MaxFrames frames
MaxFrames == 2

\* a locator matches between 1 and MaxMatches elements of a page that has any
MaxMatches == 2

\* a context holds between 1 and MaxPages pages: the one opened by new_page
\* and those the application opens in new tabs when a link is clicked
MaxPages == 2

\* ------------------------------------------------------------ the scripts
Scenarios ==
  {"TC001", "TC004", "TC005", "TC010", "TC011", "TC012", "TC015", "TC016", "TC017"}

\* TC001_User_signup_with_valid_email_and_password.py
TC001Body ==
   <<
      [op |-> "click", line |-> 53, wait |-> 3000, ms |-> 5000, text |-> "",
       pick |-> "nth0", fresh |-> TRUE],
      [op |-> "click", line |-> 60, wait |-> 3000, ms |-> 5000, text |-> "",
       pick |-> "nth0", fresh |-> TRUE],
      [op |-> "fill", line |-> 67, wait |-> 3000, ms |-> 0, text |-> "mrwaywithwords@gmail.com",
       pick |-> "nth0", fresh |-> TRUE],
      [op |-> "fill", line |-> 73, wait |-> 3000, ms |-> 0, text |-> "narte4-Kyqdis-coqkij",
       pick |-> "nth0", fresh |-> TRUE],
      [op |-> "fill", line |-> 79, wait |-> 3000, ms |-> 0, text |-> "narte4-Kyqdis-coqkij",
       pick |-> "nth0", fresh |-> TRUE],
      [op |-> "click", line |-> 86, wait |-> 3000, ms |-> 5000, text |-> "",
       pick |-> "nth0", fresh |-> TRUE],
      [op |-> "click", line |-> 93, wait |-> 3000, ms |-> 5000, text |-> "",
       pick |-> "nth0", fresh |-> TRUE],
      [op |-> "fill", line |-> 100, wait |-> 3000, ms |-> 0, text |-> "mrwaywithwords@gmail.com",
       pick |-> "nth0", fresh |-> TRUE],
      [op |-> "fill", line |-> 106, wait |-> 3000, ms |-> 0, text |-> "narte4-Kyqdis-coqkij",
       pick |-> "nth0", fresh |-> TRUE],
      [op |-> "click", line |-> 112, wait |-> 3000, ms |-> 5000, text |-> "",
       pick |-> "nth0", fresh |-> TRUE],
      [op |-> "expect", line |-> 117, wait |-> 0, ms |-> 30000, text |-> "mrwaywithwords@gmail.com",
       pick |-> "first", fresh |-> TRUE],
      [op |-> "expect", line |-> 118, wait |-> 0, ms |-> 30000, text |-> "Sign Out",
       pick |-> "first", fresh |-> FALSE],
      [op |-> "expect", line |-> 119, wait |-> 0, ms |-> 30000, text |-> "Review and analyze your recorded sessions to sharpen your performance.",
       pick |-> "first", fresh |-> FALSE],
      [op |-> "expect", line |-> 120, wait |-> 0, ms |-> 30000, text |-> "Sessions This Week",
       pick |-> "first", fresh |-> FALSE],
      [op |-> "expect", line |-> 121, wait |-> 0, ms |-> 30000, text |-> "2",
       pick |-> "first", fresh |-> FALSE],
      [op |-> "expect", line |-> 122, wait |-> 0, ms |-> 30000, text |-> "Total Minutes Practiced",
       pick |-> "first", fresh |-> FALSE],
      [op |-> "expect", line |-> 123, wait |-> 0, ms |-> 30000, text |-> "0",
       pick |-> "first", fresh |-> FALSE],
      [op |-> "expect", line |-> 124, wait |-> 0, ms |-> 30000, text |-> "Top Session Type",
       pick |-> "first", fresh |-> FALSE],
      [op |-> "expect", line |-> 125, wait |-> 0, ms |-> 30000, text |-> "Interview",
       pick |-> "first", fresh |-> FALSE],
      [op |-> "sleep", line |-> 126, wait |-> 0, ms |-> 5000, text |-> "",
       pick |-> "", fresh |-> FALSE]
   >>

\* TC004_Create_a_new_interview_session_with_audio_recording.py
TC004Body ==
   <<
      [op |-> "click", line |-> 53, wait |-> 3000, ms |-> 5000, text |-> "",
       pick |-> "nth0", fresh |-> TRUE],
      [op |-> "fill", line |-> 60, wait |-> 3000, ms |-> 0, text |-> "mrwaywithwords@gmail.com",
       pick |-> "nth0", fresh |-> TRUE],
      [op |-> "fill", line |-> 66, wait |-> 3000, ms |-> 0, text |-> "narte4-Kyqdis-coqkij",
       pick |-> "nth0", fresh |-> TRUE],
      [op |-> "click", line |-> 72, wait |-> 3000, ms |-> 5000, text |-> "",
       pick |-> "nth0", fresh |-> TRUE],
      [op |-> "click", line |-> 79, wait |-> 3000, ms |-> 5000, text |-> "",
       pick |-> "nth0", fresh |-> TRUE],
      [op |-> "fill", line |-> 86, wait |-> 3000, ms |-> 0, text |-> "Interview Session with Audio Recording",
       pick |-> "nth0", fresh |-> TRUE],
      [op |-> "click", line |-> 93, wait |-> 3000, ms |-> 5000, text |-> "",
       pick |-> "nth0", fresh |-> TRUE],
      [op |-> "click", line |-> 100, wait |-> 3000, ms |-> 5000, text |-> "",
       pick |-> "nth0", fresh |-> TRUE],
      [op |-> "click", line |-> 107, wait |-> 3000, ms |-> 5000, text |-> "",
       pick |-> "nth0", fresh |-> TRUE],
      [op |-> "click", line |-> 114, wait |-> 3000, ms |-> 5000, text |-> "",
       pick |-> "nth0", fresh |-> TRUE],
      [op |-> "click", line |-> 121, wait |-> 3000, ms |-> 5000, text |-> "",
       pick |-> "nth0", fresh |-> TRUE],
      [op |-> "click", line |-> 128, wait |-> 3000, ms |-> 5000, text |-> "",
       pick |-> "nth0", fresh |-> TRUE],
      [op |-> "click", line |-> 135, wait |-> 3000, ms |-> 5000, text |-> "",
       pick |-> "nth0", fresh |-> TRUE],
      [op |-> "expectmsg", line |-> 141, wait |-> 0, ms |-> 30000, text |-> "Recording Started Successfully",
       pick |-> "first", fresh |-> TRUE],
      [op |-> "sleep", line |-> 144, wait |-> 0, ms |-> 5000, text |-> "",
       pick |-> "", fresh |-> FALSE]
   >>

\* TC005_Create_a_new_trading_session_with_video_recording.py
TC005Body ==
   <<
      [op |-> "click", line |-> 53, wait |-> 3000, ms |-> 5000, text |-> "",
       pick |-> "nth0", fresh |-> TRUE],
      [op |-> "fill", line |-> 60, wait |-> 3000, ms |-> 0, text |-> "mrwaywithwords@gmail.com",
       pick |-> "nth0", fresh |-> TRUE],
      [op |-> "fill", line |-> 66, wait |-> 3000, ms |-> 0, text |-> "narte4-Kyqdis-coqkij",
       pick |-> "nth0", fresh |-> TRUE],
      [op |-> "click", line |-> 72, wait |-> 3000, ms |-> 5000, text |-> "",
       pick |-> "nth0", fresh |-> TRUE],
      [op |-> "click", line |-> 79, wait |-> 3000, ms |-> 5000, text |-> "",
       pick |-> "nth0", fresh |-> TRUE],
      [op |-> "fill", line |-> 86, wait |-> 3000, ms |-> 0, text |-> "mrwaywithwords@gmail.com",
       pick |-> "nth0", fresh |-> TRUE],
      [op |-> "fill", line |-> 92, wait |-> 3000, ms |-> 0, text |-> "narte4-Kyqdis-coqkij",
       pick |-> "nth0", fresh |-> TRUE],
      [op |-> "click", line |-> 98, wait |-> 3000, ms |-> 5000, text |-> "",
       pick |-> "nth0", fresh |-> TRUE],
      [op |-> "click", line |-> 105, wait |-> 3000, ms |-> 5000, text |-> "",
       pick |-> "nth0", fresh |-> TRUE],
      [op |-> "fill", line |-> 112, wait |-> 3000, ms |-> 0, text |-> "Trading Session 1",
       pick |-> "nth0", fresh |-> TRUE],
      [op |-> "click", line |-> 118, wait |-> 3000, ms |-> 5000, text |-> "",
       pick |-> "nth0", fresh |-> TRUE],
      [op |-> "click", line |-> 125, wait |-> 3000, ms |-> 5000, text |-> "",
       pick |-> "nth0", fresh |-> TRUE],
      [op |-> "click", line |-> 132, wait |-> 3000, ms |-> 5000, text |-> "",
       pick |-> "nth0", fresh |-> TRUE],
      [op |-> "click", line |-> 139, wait |-> 3000, ms |-> 5000, text |-> "",
       pick |-> "nth0", fresh |-> TRUE],
      [op |-> "click", line |-> 146, wait |-> 3000, ms |-> 5000, text |-> "",
       pick |-> "nth0", fresh |-> TRUE],
      [op |-> "expectmsg", line |-> 152, wait |-> 0, ms |-> 1000, text |-> "Recording session failed to start",
       pick |-> "first", fresh |-> TRUE],
      [op |-> "sleep", line |-> 155, wait |-> 0, ms |-> 5000, text |-> "",
       pick |-> "", fresh |-> FALSE]
   >>

\* TC010_Manual_transcript_editing_with_search_and_highlighting.py
TC010Body ==
   <<
      [op |-> "click", line |-> 53, wait |-> 3000, ms |-> 5000, text |-> "",
       pick |-> "nth0", fresh |-> TRUE],
      [op |-> "fill", line |-> 60, wait |-> 3000, ms |-> 0, text |-> "mrwaywithwords@gmail.com",
       pick |-> "nth0", fresh |-> TRUE],
      [op |-> "fill", line |-> 66, wait |-> 3000, ms |-> 0, text |-> "narte4-Kyqdis-coqkij",
       pick |-> "nth0", fresh |-> TRUE],
      [op |-> "click", line |-> 72, wait |-> 3000, ms |-> 5000, text |-> "",
       pick |-> "nth0", fresh |-> TRUE],
      [op |-> "click", line |-> 79, wait |-> 3000, ms |-> 5000, text |-> "",
       pick |-> "nth0", fresh |-> TRUE],
      [op |-> "fill", line |-> 86, wait |-> 3000, ms |-> 0, text |-> "mrwaywithwords@gmail.com",
       pick |-> "nth0", fresh |-> TRUE],
      [op |-> "fill", line |-> 92, wait |-> 3000, ms |-> 0, text |-> "narte4-Kyqdis-coqkij",
       pick |-> "nth0", fresh |-> TRUE],
      [op |-> "click", line |-> 98, wait |-> 3000, ms |-> 5000, text |-> "",
       pick |-> "nth0", fresh |-> TRUE],
      [op |-> "click", line |-> 105, wait |-> 3000, ms |-> 5000, text |-> "",
       pick |-> "nth0", fresh |-> TRUE],
      [op |-> "wheel", line |-> 109, wait |-> 0, ms |-> 0, text |-> "",
       pick |-> "", fresh |-> FALSE],
      [op |-> "fill", line |-> 116, wait |-> 3000, ms |-> 0, text |-> "This is a test transcript. We will paste this text and then edit it manually to validate the editor functionality.",
       pick |-> "nth0", fresh |-> TRUE],
      [op |-> "fill", line |-> 123, wait |-> 3000, ms |-> 0, text |-> "This is a test transcript. We will paste this text and then edit it manually to validate the editor functionality. Adding an extra sentence to test manual editing.",
       pick |-> "nth0", fresh |-> TRUE],
      [op |-> "click", line |-> 130, wait |-> 3000, ms |-> 5000, text |-> "",
       pick |-> "nth0", fresh |-> TRUE],
      [op |-> "fill", line |-> 137, wait |-> 3000, ms |-> 0, text |-> "validate",
       pick |-> "nth0", fresh |-> TRUE],
      [op |-> "click", line |-> 144, wait |-> 3000, ms |-> 5000, text |-> "",
       pick |-> "nth0", fresh |-> TRUE],
      [op |-> "fill", line |-> 151, wait |-> 3000, ms |-> 0, text |-> "mrwaywithwords@gmail.com",
       pick |-> "nth0", fresh |-> TRUE],
      [op |-> "fill", line |-> 157, wait |-> 3000, ms |-> 0, text |-> "narte4-Kyqdis-coqkij",
       pick |-> "nth0", fresh |-> TRUE],
      [op |-> "click", line |-> 163, wait |-> 3000, ms |-> 5000, text |-> "",
       pick |-> "nth0", fresh |-> TRUE],
      [op |-> "expect", line |-> 168, wait |-> 0, ms |-> 30000, text |-> "This is a test transcript. We will paste this text and then edit it manually to validate the editor functionality. Adding an extra sentence to test manual editing.",
       pick |-> "first", fresh |-> TRUE],
      [op |-> "expect", line |-> 169, wait |-> 0, ms |-> 30000, text |-> "validate",
       pick |-> "first", fresh |-> FALSE],
      [op |-> "sleep", line |-> 170, wait |-> 0, ms |-> 5000, text |-> "",
       pick |-> "", fresh |-> FALSE]
   >>

\* TC011_Queue_AI_job_for_transcription_and_verify_result.py
TC011Body ==
   <<
      [op |-> "click", line |-> 53, wait |-> 3000, ms |-> 5000, text |-> "",
       pick |-> "nth0", fresh |-> TRUE],
      [op |-> "fill", line |-> 60, wait |-> 3000, ms |-> 0, text |-> "mrwaywithwords@gmail.com",
       pick |-> "nth0", fresh |-> TRUE],
      [op |-> "fill", line |-> 66, wait |-> 3000, ms |-> 0, text |-> "narte4-Kyqdis-coqkij",
       pick |-> "nth0", fresh |-> TRUE],
      [op |-> "click", line |-> 72, wait |-> 3000, ms |-> 5000, text |-> "",
       pick |-> "nth0", fresh |-> TRUE],
      [op |-> "click", line |-> 79, wait |-> 3000, ms |-> 5000, text |-> "",
       pick |-> "nth0", fresh |-> TRUE],
      [op |-> "fill", line |-> 86, wait |-> 3000, ms |-> 0, text |-> "mrwaywithwords@gmail.com",
       pick |-> "nth0", fresh |-> TRUE],
      [op |-> "fill", line |-> 92, wait |-> 3000, ms |-> 0, text |-> "narte4-Kyqdis-coqkij",
       pick |-> "nth0", fresh |-> TRUE],
      [op |-> "click", line |-> 98, wait |-> 3000, ms |-> 5000, text |-> "",
       pick |-> "nth0", fresh |-> TRUE],
      [op |-> "click", line |-> 105, wait |-> 3000, ms |-> 5000, text |-> "",
       pick |-> "nth0", fresh |-> TRUE],
      [op |-> "click", line |-> 112, wait |-> 3000, ms |-> 5000, text |-> "",
       pick |-> "nth0", fresh |-> TRUE],
      [op |-> "fill", line |-> 119, wait |-> 3000, ms |-> 0, text |-> "mrwaywithwords@gmail.com",
       pick |-> "nth0", fresh |-> TRUE],
      [op |-> "fill", line |-> 125, wait |-> 3000, ms |-> 0, text |-> "narte4-Kyqdis-coqkij",
       pick |-> "nth0", fresh |-> TRUE],
      [op |-> "click", line |-> 131, wait |-> 3000, ms |-> 5000, text |-> "",
       pick |-> "nth0", fresh |-> TRUE],
      [op |-> "click", line |-> 138, wait |-> 3000, ms |-> 5000, text |-> "",
       pick |-> "nth0", fresh |-> TRUE],
      [op |-> "click", line |-> 145, wait |-> 3000, ms |-> 5000, text |-> "",
       pick |-> "nth0", fresh |-> TRUE],
      [op |-> "fill", line |-> 152, wait |-> 3000, ms |-> 0, text |-> "This is a test transcript. We will paste this text and then edit it manually to validate the editor functionality. Adding an extra sentence to test manual editing.",
       pick |-> "nth0", fresh |-> TRUE],
      [op |-> "click", line |-> 159, wait |-> 3000, ms |-> 5000, text |-> "",
       pick |-> "nth0", fresh |-> TRUE],
      [op |-> "expectmsg", line |-> 165, wait |-> 0, ms |-> 1000, text |-> "Transcription job completed successfully",
       pick |-> "first", fresh |-> TRUE],
      [op |-> "sleep", line |-> 168, wait |-> 0, ms |-> 5000, text |-> "",
       pick |-> "", fresh |-> FALSE]
   >>

\* TC012_AI_job_error_handling_and_retry.py
TC012Body ==
   <<
      [op |-> "click", line |-> 53, wait |-> 3000, ms |-> 5000, text |-> "",
       pick |-> "nth0", fresh |-> TRUE],
      [op |-> "fill", line |-> 60, wait |-> 3000, ms |-> 0, text |-> "mrwaywithwords@gmail.com",
       pick |-> "nth0", fresh |-> TRUE],
      [op |-> "fill", line |-> 66, wait |-> 3000, ms |-> 0, text |-> "narte4-Kyqdis-coqkij",
       pick |-> "nth0", fresh |-> TRUE],
      [op |-> "click", line |-> 72, wait |-> 3000, ms |-> 5000, text |-> "",
       pick |-> "nth0", fresh |-> TRUE],
      [op |-> "click", line |-> 79, wait |-> 3000, ms |-> 5000, text |-> "",
       pick |-> "nth0", fresh |-> TRUE],
      [op |-> "fill", line |-> 86, wait |-> 3000, ms |-> 0, text |-> "mrwaywithwords@gmail.com",
       pick |-> "nth0", fresh |-> TRUE],
      [op |-> "fill", line |-> 92, wait |-> 3000, ms |-> 0, text |-> "narte4-Kyqdis-coqkij",
       pick |-> "nth0", fresh |-> TRUE],
      [op |-> "click", line |-> 98, wait |-> 3000, ms |-> 5000, text |-> "",
       pick |-> "nth0", fresh |-> TRUE],
      [op |-> "click", line |-> 105, wait |-> 3000, ms |-> 5000, text |-> "",
       pick |-> "nth0", fresh |-> TRUE],
      [op |-> "click", line |-> 112, wait |-> 3000, ms |-> 5000, text |-> "",
       pick |-> "nth0", fresh |-> TRUE],
      [op |-> "click", line |-> 119, wait |-> 3000, ms |-> 5000, text |-> "",
       pick |-> "nth0", fresh |-> TRUE],
      [op |-> "click", line |-> 126, wait |-> 3000, ms |-> 5000, text |-> "",
       pick |-> "nth0", fresh |-> TRUE],
      [op |-> "expectmsg", line |-> 132, wait |-> 0, ms |-> 1000, text |-> "AI job completed successfully",
       pick |-> "first", fresh |-> TRUE],
      [op |-> "sleep", line |-> 135, wait |-> 0, ms |-> 5000, text |-> "",
       pick |-> "", fresh |-> FALSE]
   >>

\* TC015_Verify_Row_Level_Security_enforces_data_privacy.py
TC015Body ==
   <<
      [op |-> "click", line |-> 53, wait |-> 3000, ms |-> 5000, text |-> "",
       pick |-> "nth0", fresh |-> TRUE],
      [op |-> "fill", line |-> 60, wait |-> 3000, ms |-> 0, text |-> "mrwaywithwords@gmail.com",
       pick |-> "nth0", fresh |-> TRUE],
      [op |-> "fill", line |-> 66, wait |-> 3000, ms |-> 0, text |-> "narte4-Kyqdis-coqkij",
       pick |-> "nth0", fresh |-> TRUE],
      [op |-> "click", line |-> 72, wait |-> 3000, ms |-> 5000, text |-> "",
       pick |-> "nth0", fresh |-> TRUE],
      [op |-> "goto", line |-> 77, wait |-> 0, ms |-> 10000, text |-> "",
       pick |-> "", fresh |-> FALSE],
      [op |-> "sleep", line |-> 78, wait |-> 0, ms |-> 3000, text |-> "",
       pick |-> "", fresh |-> FALSE],
      [op |-> "rlscheck", line |-> 82, wait |-> 0, ms |-> 0, text |-> "",
       pick |-> "count", fresh |-> TRUE],
      [op |-> "goto", line |-> 94, wait |-> 0, ms |-> 10000, text |-> "",
       pick |-> "", fresh |-> FALSE],
      [op |-> "sleep", line |-> 95, wait |-> 0, ms |-> 3000, text |-> "",
       pick |-> "", fresh |-> FALSE],
      [op |-> "goto", line |-> 98, wait |-> 0, ms |-> 10000, text |-> "",
       pick |-> "", fresh |-> FALSE],
      [op |-> "sleep", line |-> 99, wait |-> 0, ms |-> 3000, text |-> "",
       pick |-> "", fresh |-> FALSE],
      [op |-> "fill", line |-> 108, wait |-> 3000, ms |-> 0, text |-> "USER_B_EMAIL@example.com",
       pick |-> "nth0", fresh |-> TRUE],
      [op |-> "fill", line |-> 114, wait |-> 3000, ms |-> 0, text |-> "USER_B_PASSWORD",
       pick |-> "nth0", fresh |-> TRUE],
      [op |-> "click", line |-> 120, wait |-> 3000, ms |-> 5000, text |-> "",
       pick |-> "nth0", fresh |-> TRUE],
      [op |-> "sleep", line |-> 126, wait |-> 0, ms |-> 3000, text |-> "",
       pick |-> "", fresh |-> TRUE],
      [op |-> "expectdash", line |-> 131, wait |-> 0, ms |-> 5000, text |-> "Your Sessions",
       pick |-> "first", fresh |-> FALSE],
      [op |-> "sleep", line |-> 140, wait |-> 0, ms |-> 2000, text |-> "",
       pick |-> "", fresh |-> FALSE]
   >>

\* TC016_Company_and_symbol_management_functionality.py
TC016Body ==
   <<
      [op |-> "click", line |-> 53, wait |-> 3000, ms |-> 5000, text |-> "",
       pick |-> "nth0", fresh |-> TRUE],
      [op |-> "fill", line |-> 60, wait |-> 3000, ms |-> 0, text |-> "mrwaywithwords@gmail.com",
       pick |-> "nth0", fresh |-> TRUE],
      [op |-> "fill", line |-> 66, wait |-> 3000, ms |-> 0, text |-> "narte4-Kyqdis-coqkij",
       pick |-> "nth0", fresh |-> TRUE],
      [op |-> "click", line |-> 72, wait |-> 3000, ms |-> 5000, text |-> "",
       pick |-> "nth0", fresh |-> TRUE],
      [op |-> "evalwheel", line |-> 76, wait |-> 0, ms |-> 0, text |-> "",
       pick |-> "", fresh |-> FALSE],
      [op |-> "click", line |-> 82, wait |-> 3000, ms |-> 5000, text |-> "",
       pick |-> "nth0", fresh |-> TRUE],
      [op |-> "evalwheel", line |-> 86, wait |-> 0, ms |-> 0, text |-> "",
       pick |-> "", fresh |-> FALSE],
      [op |-> "evalwheel", line |-> 90, wait |-> 0, ms |-> 0, text |-> "",
       pick |-> "", fresh |-> FALSE],
      [op |-> "click", line |-> 96, wait |-> 3000, ms |-> 5000, text |-> "",
       pick |-> "nth0", fresh |-> TRUE],
      [op |-> "evalwheel", line |-> 100, wait |-> 0, ms |-> 0, text |-> "",
       pick |-> "", fresh |-> FALSE],
      [op |-> "click", line |-> 106, wait |-> 3000, ms |-> 5000, text |-> "",
       pick |-> "nth0", fresh |-> TRUE],
      [op |-> "click", line |-> 113, wait |-> 3000, ms |-> 5000, text |-> "",
       pick |-> "nth0", fresh |-> TRUE],
      [op |-> "fill", line |-> 120, wait |-> 3000, ms |-> 0, text |-> "mrwaywithwords@gmail.com",
       pick |-> "nth0", fresh |-> TRUE],
      [op |-> "fill", line |-> 126, wait |-> 3000, ms |-> 0, text |-> "narte4-Kyqdis-coqkij",
       pick |-> "nth0", fresh |-> TRUE],
      [op |-> "click", line |-> 132, wait |-> 3000, ms |-> 5000, text |-> "",
       pick |-> "nth0", fresh |-> TRUE],
      [op |-> "evalwheel", line |-> 136, wait |-> 0, ms |-> 0, text |-> "",
       pick |-> "", fresh |-> FALSE],
      [op |-> "click", line |-> 142, wait |-> 3000, ms |-> 5000, text |-> "",
       pick |-> "nth0", fresh |-> TRUE],
      [op |-> "click", line |-> 149, wait |-> 3000, ms |-> 5000, text |-> "",
       pick |-> "nth0", fresh |-> TRUE],
      [op |-> "fill", line |-> 156, wait |-> 3000, ms |-> 0, text |-> "mrwaywithwords@gmail.com",
       pick |-> "nth0", fresh |-> TRUE],
      [op |-> "fill", line |-> 162, wait |-> 3000, ms |-> 0, text |-> "narte4-Kyqdis-coqkij",
       pick |-> "nth0", fresh |-> TRUE],
      [op |-> "click", line |-> 168, wait |-> 3000, ms |-> 5000, text |-> "",
       pick |-> "nth0", fresh |-> TRUE],
      [op |-> "evalwheel", line |-> 172, wait |-> 0, ms |-> 0, text |-> "",
       pick |-> "", fresh |-> FALSE],
      [op |-> "click", line |-> 178, wait |-> 3000, ms |-> 5000, text |-> "",
       pick |-> "nth0", fresh |-> TRUE],
      [op |-> "click", line |-> 185, wait |-> 3000, ms |-> 5000, text |-> "",
       pick |-> "nth0", fresh |-> TRUE],
      [op |-> "expectmsg", line |-> 191, wait |-> 0, ms |-> 1000, text |-> "Company Creation Successful",
       pick |-> "first", fresh |-> TRUE],
      [op |-> "sleep", line |-> 194, wait |-> 0, ms |-> 5000, text |-> "",
       pick |-> "", fresh |-> FALSE]
   >>

\* TC017_UI_responsiveness_and_theme_toggling.py
TC017Body ==
   <<
      [op |-> "wheel", line |-> 50, wait |-> 0, ms |-> 0, text |-> "",
       pick |-> "", fresh |-> FALSE],
      [op |-> "click", line |-> 56, wait |-> 3000, ms |-> 5000, text |-> "",
       pick |-> "nth0", fresh |-> TRUE],
      [op |-> "click", line |-> 63, wait |-> 3000, ms |-> 5000, text |-> "",
       pick |-> "nth0", fresh |-> TRUE],
      [op |-> "goto", line |-> 67, wait |-> 0, ms |-> 10000, text |-> "",
       pick |-> "", fresh |-> FALSE],
      [op |-> "sleep", line |-> 68, wait |-> 0, ms |-> 3000, text |-> "",
       pick |-> "", fresh |-> FALSE],
      [op |-> "wheel", line |-> 71, wait |-> 0, ms |-> 0, text |-> "",
       pick |-> "", fresh |-> FALSE],
      [op |-> "goto", line |-> 75, wait |-> 0, ms |-> 10000, text |-> "",
       pick |-> "", fresh |-> FALSE],
      [op |-> "sleep", line |-> 76, wait |-> 0, ms |-> 3000, text |-> "",
       pick |-> "", fresh |-> FALSE],
      [op |-> "goto", line |-> 80, wait |-> 0, ms |-> 10000, text |-> "",
       pick |-> "", fresh |-> FALSE],
      [op |-> "sleep", line |-> 81, wait |-> 0, ms |-> 3000, text |-> "",
       pick |-> "", fresh |-> FALSE],
      [op |-> "wheel", line |-> 84, wait |-> 0, ms |-> 0, text |-> "",
       pick |-> "", fresh |-> FALSE],
      [op |-> "goto", line |-> 88, wait |-> 0, ms |-> 10000, text |-> "",
       pick |-> "", fresh |-> FALSE],
      [op |-> "sleep", line |-> 89, wait |-> 0, ms |-> 3000, text |-> "",
       pick |-> "", fresh |-> FALSE],
      [op |-> "goto", line |-> 93, wait |-> 0, ms |-> 10000, text |-> "",
       pick |-> "", fresh |-> FALSE],
      [op |-> "sleep", line |-> 94, wait |-> 0, ms |-> 3000, text |-> "",
       pick |-> "", fresh |-> FALSE],
      [op |-> "goto", line |-> 98, wait |-> 0, ms |-> 10000, text |-> "",
       pick |-> "", fresh |-> FALSE],
      [op |-> "sleep", line |-> 99, wait |-> 0, ms |-> 3000, text |-> "",
       pick |-> "", fresh |-> FALSE],
      [op |-> "goto", line |-> 103, wait |-> 0, ms |-> 10000, text |-> "",
       pick |-> "", fresh |-> FALSE],
      [op |-> "sleep", line |-> 104, wait |-> 0, ms |-> 3000, text |-> "",
       pick |-> "", fresh |-> FALSE],
      [op |-> "goto", line |-> 108, wait |-> 0, ms |-> 10000, text |-> "",
       pick |-> "", fresh |-> FALSE],
      [op |-> "sleep", line |-> 109, wait |-> 0, ms |-> 3000, text |-> "",
       pick |-> "", fresh |-> FALSE],
      [op |-> "wheel", line |-> 113, wait |-> 0, ms |-> 0, text |-> "",
       pick |-> "", fresh |-> FALSE],
      [op |-> "click", line |-> 119, wait |-> 3000, ms |-> 5000, text |-> "",
       pick |-> "nth0", fresh |-> TRUE],
      [op |-> "goto", line |-> 123, wait |-> 0, ms |-> 10000, text |-> "",
       pick |-> "", fresh |-> FALSE],
      [op |-> "sleep", line |-> 124, wait |-> 0, ms |-> 3000, text |-> "",
       pick |-> "", fresh |-> FALSE],
      [op |-> "click", line |-> 131, wait |-> 3000, ms |-> 5000, text |-> "",
       pick |-> "nth0", fresh |-> TRUE],
      [op |-> "expect", line |-> 136, wait |-> 0, ms |-> 30000, text |-> "Replay.ai",
       pick |-> "first", fresh |-> TRUE],
      [op |-> "expect", line |-> 137, wait |-> 0, ms |-> 30000, text |-> "Review your performance like game film",
       pick |-> "first", fresh |-> FALSE],
      [op |-> "expect", line |-> 138, wait |-> 0, ms |-> 30000, text |-> "The elite platform for professionals to record, review, and analyze performance with AI-powered insights.",
       pick |-> "first", fresh |-> FALSE],
      [op |-> "expect", line |-> 139, wait |-> 0, ms |-> 30000, text |-> "Start Free Session",
       pick |-> "first", fresh |-> FALSE],
      [op |-> "expect", line |-> 140, wait |-> 0, ms |-> 30000, text |-> "Simulate real-world interview scenarios. Record your audio and video to analyze body language, tone, and content quality.",
       pick |-> "first", fresh |-> FALSE],
      [op |-> "expect", line |-> 141, wait |-> 0, ms |-> 30000, text |-> "Review your sessions like game film. Tag important moments, add notes, and track your progress across multiple sessions.",
       pick |-> "first", fresh |-> FALSE],
      [op |-> "expect", line |-> 142, wait |-> 0, ms |-> 30000, text |-> "Get instant feedback on your speaking pace, filler word usage, and content clarity powered by advanced speech analysis.",
       pick |-> "first", fresh |-> FALSE],
      [op |-> "expect", line |-> 143, wait |-> 0, ms |-> 30000, text |-> "Replay.ai© 2026 Replay.ai. All rights reserved.",
       pick |-> "first", fresh |-> FALSE],
      [op |-> "sleep", line |-> 144, wait |-> 0, ms |-> 5000, text |-> "",
       pick |-> "", fresh |-> FALSE]
   >>

Body(s) ==
  CASE s = "TC001" -> TC001Body
    [] s = "TC004" -> TC004Body
    [] s = "TC005" -> TC005Body
    [] s = "TC010" -> TC010Body
    [] s = "TC011" -> TC011Body
    [] s = "TC012" -> TC012Body
    [] s = "TC015" -> TC015Body
    [] s = "TC016" -> TC016Body
    [] s = "TC017" -> TC017Body

\* line of `await context.close()` in the finally block of each script;
\* browser.close() is two lines below it and pw.stop() four
CloseLine(s) ==
  CASE s = "TC001" -> 130
    [] s = "TC004" -> 148
    [] s = "TC005" -> 159
    [] s = "TC010" -> 174
    [] s = "TC011" -> 172
    [] s = "TC012" -> 139
    [] s = "TC015" -> 144
    [] s = "TC016" -> 198
    [] s = "TC017" -> 148

\* ------------------------------------------------------------- values
None == [type |-> "None", line |-> 0]

Exception(t, l) == [type |-> t, line |-> l]

\* a handle returned by the automation library: what it is and who created it
NoHandle == [kind |-> "none", by |-> 0]

Handle(k, p) == [kind |-> k, by |-> p]

NoCloses == [context |-> 0, browser |-> 0, pw |-> 0]

\* the number TC001 expects on the dashboard ('text=2' under Sessions This Week);
\* the account holds that many sessions when the suite starts
ExpectedCount == 2

\* TC004's click on 'Start Session' creates a session of the signed-in account
CreatesSession(s, l) == s = "TC004" /\ l = 135

\* TC001's assertion on the number shown under 'Sessions This Week'
ReadsSessionCount(s, l) == s = "TC001" /\ l = 121

\* words of frame.content() that decide TC015's access check
Tokens == {"not found", "error", "h1"}

Procs == DOMAIN script

Cur(p) == Body(script[p])[ip[p]]

\* context.set_default_timeout(5000): the timeout, in milliseconds, of every
\* call on the context's pages that names none
DefaultTimeout == 5000

\* page.goto(url, ..., timeout=10000)
GotoTimeout == 10000

\* the timeout of a call with the default of the context left out
TimeoutWritten(st) == st.ms

\* the timeout of a call: the timeout= argument written on the statement,
\* else the default of the context
Timeout(st) == IF st.ms > 0 THEN st.ms ELSE DefaultTimeout

\* a click or fill statement made of the action alone
ActCallsNoWait(st) == <<st.op>>

\* the awaited page calls of a click or fill statement, in the order written:
\* page.wait_for_timeout(n) where the statement has one, then the action
ActCalls(st) == IF st.wait > 0 THEN <<"wait", st.op>> ELSE <<st.op>>

\* the awaited page calls of a scroll: page.evaluate(...) where the distance
\* is computed in the page, then page.mouse.wheel
WheelCalls(st) ==
  IF st.op = "evalwheel" THEN <<"evaluate", "wheel">> ELSE <<"wheel">>

\* the record of a statement: the awaited page calls it made (calls), the
\* call made just before its first one (prev), the exception one of its
\* except clauses caught (caught), the timeout that expired in it (expired)
\* and why its call did not return (cause)
\* page is the index in context.pages of the page the statement went
\* through (0 when none), top the index of context.pages[-1] at that time,
\* read the matches of its locator that it acted on or read, numbered from 1
\* in document order
NoStep ==
  [stmt |-> "none", prev |-> "none", calls |-> <<>>, caught |-> None,
   expired |-> 0, cause |-> "", page |-> 0, top |-> 0, read |-> {}]

\* the application as the scripts meet it: how many elements a locator that
\* matches any matches, and how many pages a context comes to hold
Apps == [matches : 1..MaxMatches, tabs : 1..MaxPages]

\* an application whose locators match one element and that opens no tab
PlainApp == [matches |-> 1, tabs |-> 1]

\* a selector that takes the last match, as locator.last does
ResolveLast(pick, n) ==
  IF pick \in {"nth0", "first"} THEN {n} ELSE 1..n

\* locator.nth(k) of a locator with n matches: the match of zero-based index k
Nth(k, n) == IF k < n THEN {k + 1} ELSE {}

\* the matches a locator statement goes through, of the n there are:
\* .nth(0) and .first take the first one, .count() goes through all
Resolve(pick, n) ==
  IF pick \in {"nth0", "first"} THEN Nth(0, n) ELSE 1..n

\* ------------------------------------------------------------- helpers
\* an exception of type t raised at line l inside the try body: control
\* leaves the body and enters the finally block
Throw(p, t, l) ==
  /\ exc' = [exc EXCEPT ![p] = Exception(t, l)]
  /\ first' = [first EXCEPT ![p] = Exception(t, l)]
  /\ pc' = [pc EXCEPT ![p] = "fin_context"]

\* an exception raised by a call of the finally block: it replaces whatever
\* was propagating and leaves run_test at once
ThrowInFinally(p, l) ==
  /\ exc' = [exc EXCEPT ![p] = Exception("Error", l)]
  /\ pc' = [pc EXCEPT ![p] = "done"]

\* a statement that, having returned, jumps over the one after it
AdvanceSkipping(p) ==
  LET n == IF ip[p] < Len(Body(script[p])) THEN ip[p] + 2 ELSE ip[p] + 1 IN
  /\ ip' = [ip EXCEPT ![p] = n]
  /\ pc' = [pc EXCEPT ![p] =
              IF n > Len(Body(script[p])) THEN "fin_context" ELSE "body"]

\* the statement returned: go on with the next one, or leave the try body
Advance(p) ==
  /\ ip' = [ip EXCEPT ![p] = @ + 1]
  /\ pc' = [pc EXCEPT ![p] =
              IF ip[p] = Len(Body(script[p])) THEN "fin_context" ELSE "body"]

\* the statement went through a page of the context held in `context`
Touch(p) == users' = [users EXCEPT ![context[p].by] = @ \cup {p}]

\* a runner that stops starting statements once any other script has failed
AtStmtFailFast(p, ops) ==
  /\ pc[p] = "body"
  /\ Cur(p).op \in ops
  /\ \A q \in Procs \ {p} : exc[q] = None

\* process p is about to execute a statement of one of the kinds `ops`
AtStmt(p, ops) == pc[p] = "body" /\ Cur(p).op \in ops

\* the page call awaited last by process p
LastCall(p) ==
  IF last[p].calls = <<>> THEN last[p].prev
  ELSE last[p].calls[Len(last[p].calls)]

\* a frame never reassigned, whatever the script writes
FrameKept(p) == IF frame[p] = 0 THEN pages[p] ELSE frame[p]

\* the value of the local variable frame when the statement at hand makes
\* its calls: context.pages[-1] where `frame = context.pages[-1]` is written
\* between the previous statement and this one, else what it was
Frame(p) == IF Cur(p).fresh THEN pages[p] ELSE frame[p]

\* the page a statement of kind stmt goes through: `frame` for the locator
\* statements and TC015's check, `page` (the page opened by new_page, the
\* first of context.pages) for navigation, scrolling and the load waits
PageUsed(p, stmt) ==
  IF stmt \in {"click", "fill", "expect", "expectmsg", "expectdash", "rlscheck"}
    THEN Frame(p)
  ELSE IF stmt \in {"goto", "load", "wheel", "evalwheel"} THEN 1
  ELSE 0

\* what context.pages holds after a click or fill of p returned: a click
\* may have made the application open one more page
Opened(p) ==
  IF Cur(p).op = "click" /\ pages[p] < app.tabs
    THEN {pages[p], pages[p] + 1} ELSE {pages[p]}

\* process p executed statement stmt, which awaited the calls `calls` and
\* went through the matches `read` of its locator
DidOn(p, stmt, calls, caught, expired, cause, read) ==
  last' = [last EXCEPT ![p] =
             [stmt |-> stmt, prev |-> LastCall(p), calls |-> calls,
              caught |-> caught, expired |-> expired, cause |-> cause,
              page |-> PageUsed(p, stmt), top |-> pages[p], read |-> read]]

\* the same for a statement that went through no match
Did(p, stmt, calls, caught, expired, cause) ==
  DidOn(p, stmt, calls, caught, expired, cause, {})

\* a statement whose calls all returned and that went through `read`
RanOn(p, stmt, calls, read) == DidOn(p, stmt, calls, None, 0, "", read)

\* the same for a statement whose calls all returned
Ran(p, stmt, calls) == Did(p, stmt, calls, None, 0, "")

\* an assertion of p held: its line is remembered
Hold(p, l) == held' = [held EXCEPT ![p] = @ \cup {l}]

\* ------------------------------------------------------------ outcomes
\* what a finished process reports: asyncio.run returns (exit code 0) or the
\* exception that left run_test is printed with its type (exit code 1).
\* An AssertionError or a Playwright TimeoutError reads as Failed, any other
\* Playwright Error as Errored.
Result(p) ==
  IF exc[p] = None THEN "Passed"
  ELSE IF exc[p].type \in {"AssertionError", "TimeoutError"} THEN "Failed"
  ELSE "Errored"

Terminal == {"Passed", "Failed", "Errored"}

\* Pending until a context is held, Running while run_test holds one and has
\* not been left, then the outcome
Status(p) ==
  IF pc[p] = "done" THEN Result(p)
  ELSE IF context[p] = NoHandle THEN "Pending"
  ELSE "Running"

\* statements that check what the page shows
AssertOps == {"expect", "expectmsg", "expectdash", "rlscheck"}

\* index of the first checking statement of script s
FirstAssert(s) ==
  CHOOSE i \in 1..Len(Body(s)) :
    /\ Body(s)[i].op \in AssertOps
    /\ \A j \in 1..(i - 1) : Body(s)[j].op \notin AssertOps

\* the first check of p's script did not hold: its expect raised
\* AssertionError, or TC015's access check found no denial
FirstAssertFailed(p) ==
  LET i == FirstAssert(script[p]) IN
  IF Body(script[p])[i].op = "rlscheck"
    THEN rls[p] \notin {"unchecked", "denied"}
    ELSE ip[p] = i /\ first[p].type = "AssertionError"

\* --------------------------------------------------------- acquisition
\* run_test invoked again after it raised, as a retry loop would
StartRetry(p) ==
  /\ pc[p] = "init" \/ (pc[p] = "done" /\ exc[p] # None)
  /\ pc' = [pc EXCEPT ![p] = "pw_start"]
  /\ runs' = [runs EXCEPT ![p] = @ + 1]
  /\ pw' = [pw EXCEPT ![p] = NoHandle]
  /\ browser' = [browser EXCEPT ![p] = NoHandle]
  /\ context' = [context EXCEPT ![p] = NoHandle]
  /\ UNCHANGED <<script, ip, frames, exc, first, closes, rls, users, sessions,
                last, held,
                app, frame, pages>>

\* asyncio.run(run_test()) at module level; run_test sets its locals to None
Start(p) ==
  /\ pc[p] = "init"
  /\ pc' = [pc EXCEPT ![p] = "pw_start"]
  /\ runs' = [runs EXCEPT ![p] = @ + 1]
  /\ pw' = [pw EXCEPT ![p] = NoHandle]
  /\ browser' = [browser EXCEPT ![p] = NoHandle]
  /\ context' = [context EXCEPT ![p] = NoHandle]
  /\ UNCHANGED <<script, ip, frames, exc, first, closes, rls, users, sessions,
                last, held,
                app, frame, pages>>

\* pw = await async_api.async_playwright().start()
PwStart(p) ==
  /\ pc[p] = "pw_start"
  /\ \/ /\ pw' = [pw EXCEPT ![p] = Handle("pw", p)]
        /\ pc' = [pc EXCEPT ![p] = "launch"]
        /\ UNCHANGED <<exc, first>>
     \/ /\ Throw(p, "Error", 12)
        /\ UNCHANGED pw
  /\ UNCHANGED <<script, ip, frames, browser, context, closes, runs, rls, users,
                 sessions, last, held,
                app, frame, pages>>

\* the launch wrapped in an except clause that drops its exception
LaunchSwallowed(p) ==
  /\ pc[p] = "launch"
  /\ \/ /\ browser' = [browser EXCEPT ![p] = Handle("browser", p)]
        /\ pc' = [pc EXCEPT ![p] = "new_context"]
     \/ /\ pc' = [pc EXCEPT ![p] = "fin_context"]
        /\ UNCHANGED browser
  /\ UNCHANGED <<script, ip, frames, pw, context, exc, first, closes, runs, rls,
                 users, sessions, last, held,
                app, frame, pages>>

\* browser = await pw.chromium.launch(...): returns, times out or fails
Launch(p) ==
  /\ pc[p] = "launch"
  /\ \/ /\ browser' = [browser EXCEPT ![p] = Handle("browser", p)]
        /\ pc' = [pc EXCEPT ![p] = "new_context"]
        /\ UNCHANGED <<exc, first>>
     \/ /\ \E t \in {"TimeoutError", "Error"} : Throw(p, t, 15)
        /\ UNCHANGED browser
  /\ UNCHANGED <<script, ip, frames, pw, context, closes, runs, rls, users,
                 sessions, last, held,
                app, frame, pages>>

\* a context kept in a module-level variable and reused by the next run
NewContextShared(p) ==
  /\ pc[p] = "new_context"
  /\ \E h \in {Handle("context", p)} \cup ({context[q] : q \in Procs} \ {NoHandle}) :
       context' = [context EXCEPT ![p] = h]
  /\ pc' = [pc EXCEPT ![p] = "new_page"]
  /\ UNCHANGED <<script, ip, frames, pw, browser, exc, first, closes, runs, rls,
                 users, sessions, last, held,
                app, frame, pages>>

\* context = await browser.new_context(); context.set_default_timeout(5000)
NewContext(p) ==
  /\ pc[p] = "new_context"
  /\ \/ /\ context' = [context EXCEPT ![p] = Handle("context", p)]
        /\ pc' = [pc EXCEPT ![p] = "new_page"]
        /\ UNCHANGED <<exc, first>>
     \/ /\ Throw(p, "Error", 26)
        /\ UNCHANGED context
  /\ UNCHANGED <<script, ip, frames, pw, browser, closes, runs, rls, users,
                 sessions, last, held,
                app, frame, pages>>

\* page = await context.new_page()
NewPage(p) ==
  /\ pc[p] = "new_page"
  /\ \/ /\ pc' = [pc EXCEPT ![p] = "goto"]
        /\ pages' = [pages EXCEPT ![p] = 1]
        /\ Touch(p)
        /\ UNCHANGED <<exc, first>>
     \/ /\ Throw(p, "Error", 30)
        /\ UNCHANGED <<users, pages>>
  /\ UNCHANGED <<script, ip, frames, pw, browser, context, closes, runs, rls,
                 sessions, last, held,
                app, frame>>

\* await page.goto("http://localhost:3000", wait_until="commit", timeout=10000)
Goto(p) ==
  /\ pc[p] = "goto"
  /\ \/ /\ pc' = [pc EXCEPT ![p] = "load"]
        /\ Ran(p, "goto", <<"goto">>)
        /\ UNCHANGED <<exc, first>>
     \/ /\ Throw(p, "TimeoutError", 33)
        /\ Did(p, "goto", <<"goto">>, None, GotoTimeout, "notloaded")
     \/ /\ Throw(p, "Error", 33)
        /\ Did(p, "goto", <<"goto">>, None, 0, "crash")
  /\ UNCHANGED <<script, ip, frames, pw, browser, context, closes, runs, rls,
                 users, sessions, held,
                app, frame, pages>>

\* try: await page.wait_for_load_state(...) except async_api.Error: pass
\* then page.frames is read: it holds the main frame and the iframes
WaitLoad(p) ==
  /\ pc[p] = "load"
  /\ \/ Ran(p, "load", <<"load">>)
     \/ Did(p, "load", <<"load">>, Exception("Error", 37), 0, "")
  /\ pc' = [pc EXCEPT ![p] = "frames"]
  /\ \E n \in 1..MaxFrames : frames' = [frames EXCEPT ![p] = n]
  /\ UNCHANGED <<script, ip, pw, browser, context, exc, first, closes, runs, rls,
                 users, sessions, held,
                app, frame, pages>>

\* the wait for a frame written without its try/except
WaitFrameUnguarded(p) ==
  /\ pc[p] = "frames"
  /\ \/ /\ Ran(p, "load", <<"load">>)
        /\ frames' = [frames EXCEPT ![p] = @ - 1]
        /\ pc' = [pc EXCEPT ![p] = IF frames[p] = 1 THEN "body" ELSE "frames"]
        /\ UNCHANGED <<exc, first>>
     \/ /\ Did(p, "load", <<"load">>, None, 0, "crash")
        /\ Throw(p, "Error", 44)
        /\ UNCHANGED frames
  /\ UNCHANGED <<script, ip, pw, browser, context, closes, runs, rls,
                 users, sessions, held, app, frame, pages>>

\* the frame loop written over the live frame list, read again after
\* every wait
WaitFrameRescan(p) ==
  /\ pc[p] = "frames"
  /\ \/ Ran(p, "load", <<"load">>)
     \/ Did(p, "load", <<"load">>, Exception("Error", 44), 0, "")
  /\ \E n \in 1..MaxFrames : frames' = [frames EXCEPT ![p] = n]
  /\ UNCHANGED <<script, pc, ip, pw, browser, context, exc, first, closes,
                 runs, rls, users, sessions, held, app, frame, pages>>

\* for frame in page.frames: try: await frame.wait_for_load_state(...)
\* except async_api.Error: pass
WaitFrame(p) ==
  /\ pc[p] = "frames"
  /\ \/ Ran(p, "load", <<"load">>)
     \/ Did(p, "load", <<"load">>, Exception("Error", 44), 0, "")
  /\ frames' = [frames EXCEPT ![p] = @ - 1]
  /\ pc' = [pc EXCEPT ![p] = IF frames[p] = 1 THEN "body" ELSE "frames"]
  /\ UNCHANGED <<script, ip, pw, browser, context, exc, first, closes, runs, rls,
                 users, sessions, held,
                app, frame, pages>>

\* ------------------------------------------------- statements of the body
\* a click or fill whose TimeoutError is caught and dropped, the script
\* going on with the next statement
ActSkipOnTimeout(p) ==
  /\ AtStmt(p, {"click", "fill"})
  /\ \/ /\ Advance(p)
        /\ sessions' = IF CreatesSession(script[p], Cur(p).line)
                         THEN sessions + 1 ELSE sessions
        /\ RanOn(p, Cur(p).op, ActCalls(Cur(p)), Resolve(Cur(p).pick, app.matches))
        /\ \E n \in Opened(p) : pages' = [pages EXCEPT ![p] = n]
        /\ UNCHANGED <<exc, first>>
     \/ /\ Throw(p, "Error", Cur(p).line)
        /\ \E c \in {<<"wait">>, ActCalls(Cur(p))} :
             Did(p, Cur(p).op, c, None, 0, "crash")
        /\ UNCHANGED <<ip, sessions, pages>>
     \/ /\ Advance(p)
        /\ \E c \in {"notfound", "notactionable"} :
             Did(p, Cur(p).op, ActCalls(Cur(p)),
                 Exception("TimeoutError", Cur(p).line), Timeout(Cur(p)), c)
        /\ UNCHANGED <<exc, first, sessions, pages>>
  /\ Touch(p)
  /\ frame' = [frame EXCEPT ![p] = Frame(p)]
  /\ UNCHANGED <<script, frames, pw, browser, context, closes, runs, rls, held,
                app>>

\* frame = context.pages[-1]; elem = frame.locator(xpath).nth(0)
\* await page.wait_for_timeout(3000); await elem.click(timeout=5000) | elem.fill(text)
\* The action returns; or the driver fails during the wait or the action; or
\* the action raises TimeoutError when its timeout expires, because the
\* locator matched no element or the element never became actionable.
Act(p) ==
  /\ AtStmt(p, {"click", "fill"})
  /\ \/ /\ Advance(p)
        /\ sessions' = IF CreatesSession(script[p], Cur(p).line)
                         THEN sessions + 1 ELSE sessions
        /\ RanOn(p, Cur(p).op, ActCalls(Cur(p)), Resolve(Cur(p).pick, app.matches))
        /\ \E n \in Opened(p) : pages' = [pages EXCEPT ![p] = n]
        /\ UNCHANGED <<exc, first>>
     \/ /\ Throw(p, "Error", Cur(p).line)
        /\ \E c \in {<<"wait">>, ActCalls(Cur(p))} :
             Did(p, Cur(p).op, c, None, 0, "crash")
        /\ UNCHANGED <<ip, sessions, pages>>
     \/ /\ Throw(p, "TimeoutError", Cur(p).line)
        /\ \/ Did(p, Cur(p).op, ActCalls(Cur(p)), None, Timeout(Cur(p)),
                   "notfound")
           \/ DidOn(p, Cur(p).op, ActCalls(Cur(p)), None, Timeout(Cur(p)),
                     "notactionable", Resolve(Cur(p).pick, app.matches))
        /\ UNCHANGED <<ip, sessions, pages>>
  /\ Touch(p)
  /\ frame' = [frame EXCEPT ![p] = Frame(p)]
  /\ UNCHANGED <<script, frames, pw, browser, context, closes, runs, rls, held,
                app>>

\* await page.mouse.wheel(0, d), d a number or await page.evaluate(...)
Wheel(p) ==
  /\ AtStmt(p, {"wheel", "evalwheel"})
  /\ \/ /\ Advance(p)
        /\ Ran(p, Cur(p).op, WheelCalls(Cur(p)))
        /\ UNCHANGED <<exc, first>>
     \/ /\ Throw(p, "Error", Cur(p).line)
        /\ \E n \in 1..Len(WheelCalls(Cur(p))) :
             Did(p, Cur(p).op, SubSeq(WheelCalls(Cur(p)), 1, n), None, 0, "crash")
        /\ UNCHANGED ip
  /\ Touch(p)
  /\ frame' = [frame EXCEPT ![p] = Frame(p)]
  /\ UNCHANGED <<script, frames, pw, browser, context, closes, runs, rls,
                 sessions, held,
                app, pages>>

\* await page.goto(url, timeout=10000) in the middle of a script
GotoStmt(p) ==
  /\ AtStmt(p, {"goto"})
  /\ \/ /\ Advance(p)
        /\ Ran(p, "goto", <<"goto">>)
        /\ UNCHANGED <<exc, first>>
     \/ /\ Throw(p, "TimeoutError", Cur(p).line)
        /\ Did(p, "goto", <<"goto">>, None, Timeout(Cur(p)), "notloaded")
        /\ UNCHANGED ip
     \/ /\ Throw(p, "Error", Cur(p).line)
        /\ Did(p, "goto", <<"goto">>, None, 0, "crash")
        /\ UNCHANGED ip
  /\ Touch(p)
  /\ frame' = [frame EXCEPT ![p] = Frame(p)]
  /\ UNCHANGED <<script, frames, pw, browser, context, closes, runs, rls,
                 sessions, held,
                app, pages>>

\* await asyncio.sleep(n)
Sleep(p) ==
  /\ AtStmt(p, {"sleep"})
  /\ Advance(p)
  /\ frame' = [frame EXCEPT ![p] = Frame(p)]
  /\ Ran(p, "sleep", <<"sleep">>)
  /\ UNCHANGED <<script, frames, pw, browser, context, exc, first, closes, runs,
                 rls, users, sessions, held,
                app, pages>>

\* what the page shows for a text the assertion waits for: the session
\* count comes from the account's data, any other text from the application
Shown(p) ==
  IF ReadsSessionCount(script[p], Cur(p).line)
    THEN {sessions = ExpectedCount}
    ELSE BOOLEAN

\* an assertion wrapped in an except clause that drops the AssertionError
ExpectLenient(p) ==
  /\ AtStmt(p, {"expect"})
  /\ \/ /\ TRUE \in Shown(p)
        /\ Advance(p)
        /\ Hold(p, Cur(p).line)
        /\ RanOn(p, "expect", <<"expect">>, Resolve(Cur(p).pick, app.matches))
        /\ UNCHANGED <<exc, first>>
     \/ /\ FALSE \in Shown(p)
        /\ Advance(p)
        /\ Did(p, "expect", <<"expect">>,
               Exception("AssertionError", Cur(p).line), Timeout(Cur(p)), "notshown")
        /\ UNCHANGED <<exc, first, held>>
     \/ /\ Throw(p, "Error", Cur(p).line)
        /\ Did(p, "expect", <<"expect">>, None, 0, "crash")
        /\ UNCHANGED <<ip, held>>
  /\ Touch(p)
  /\ frame' = [frame EXCEPT ![p] = Frame(p)]
  /\ UNCHANGED <<script, frames, pw, browser, context, closes, runs, rls,
                 sessions,
                app, pages>>

\* await expect(frame.locator('text=...').first).to_be_visible(timeout=...)
Expect(p) ==
  /\ AtStmt(p, {"expect"})
  /\ \/ /\ TRUE \in Shown(p)
        /\ Advance(p)
        /\ Hold(p, Cur(p).line)
        /\ RanOn(p, "expect", <<"expect">>, Resolve(Cur(p).pick, app.matches))
        /\ UNCHANGED <<exc, first>>
     \/ /\ FALSE \in Shown(p)
        /\ Throw(p, "AssertionError", Cur(p).line)
        /\ Did(p, "expect", <<"expect">>, None, Timeout(Cur(p)), "notshown")
        /\ UNCHANGED <<ip, held>>
     \/ /\ Throw(p, "Error", Cur(p).line)
        /\ Did(p, "expect", <<"expect">>, None, 0, "crash")
        /\ UNCHANGED <<ip, held>>
  /\ Touch(p)
  /\ frame' = [frame EXCEPT ![p] = Frame(p)]
  /\ UNCHANGED <<script, frames, pw, browser, context, closes, runs, rls,
                 sessions,
                app, pages>>

\* a wrapped assertion whose handler passes instead of raising
ExpectMsgSwallowed(p) ==
  /\ AtStmt(p, {"expectmsg"})
  /\ \/ /\ Advance(p)
        /\ Hold(p, Cur(p).line)
        /\ RanOn(p, "expectmsg", <<"expect">>, Resolve(Cur(p).pick, app.matches))
        /\ UNCHANGED <<exc, first>>
     \/ /\ Advance(p)
        /\ Did(p, "expectmsg", <<"expect">>,
               Exception("AssertionError", Cur(p).line), Timeout(Cur(p)), "notshown")
        /\ UNCHANGED <<exc, first, held>>
     \/ /\ Throw(p, "Error", Cur(p).line)
        /\ Did(p, "expectmsg", <<"expect">>, None, 0, "crash")
        /\ UNCHANGED <<ip, held>>
  /\ Touch(p)
  /\ frame' = [frame EXCEPT ![p] = Frame(p)]
  /\ UNCHANGED <<script, frames, pw, browser, context, closes, runs, rls,
                 sessions, app, pages>>

\* try: await expect(...).to_be_visible(timeout=...)
\* except AssertionError: raise AssertionError("Test case failed: ...")
ExpectMsg(p) ==
  /\ AtStmt(p, {"expectmsg"})
  /\ \/ /\ Advance(p)
        /\ Hold(p, Cur(p).line)
        /\ RanOn(p, "expectmsg", <<"expect">>, Resolve(Cur(p).pick, app.matches))
        /\ UNCHANGED <<exc, first>>
     \/ /\ Throw(p, "AssertionError", Cur(p).line + 2)
        /\ Did(p, "expectmsg", <<"expect">>,
               Exception("AssertionError", Cur(p).line), Timeout(Cur(p)), "notshown")
        /\ UNCHANGED <<ip, held>>
     \/ /\ Throw(p, "Error", Cur(p).line)
        /\ Did(p, "expectmsg", <<"expect">>, None, 0, "crash")
        /\ UNCHANGED <<ip, held>>
  /\ Touch(p)
  /\ frame' = [frame EXCEPT ![p] = Frame(p)]
  /\ UNCHANGED <<script, frames, pw, browser, context, closes, runs, rls,
                 sessions,
                app, pages>>

\* TC015: try: await expect('text=Your Sessions') ...; print(SUCCESS)
\* except AssertionError: if await error_elem.count() > 0: raise AssertionError(..)
\*                        raise AssertionError(..)
ExpectDash(p) ==
  /\ AtStmt(p, {"expectdash"})
  /\ \/ /\ Advance(p)
        /\ Hold(p, Cur(p).line)
        /\ RanOn(p, "expectdash", <<"expect">>, Resolve(Cur(p).pick, app.matches))
        /\ UNCHANGED <<exc, first>>
     \/ /\ Throw(p, "AssertionError", Cur(p).line + 6)
        /\ DidOn(p, "expectdash", <<"expect", "count">>,
                 Exception("AssertionError", Cur(p).line), Timeout(Cur(p)),
                 "notshown", Resolve("count", app.matches))
        /\ UNCHANGED <<ip, held>>
     \/ /\ Throw(p, "AssertionError", Cur(p).line + 7)
        /\ Did(p, "expectdash", <<"expect", "count">>,
               Exception("AssertionError", Cur(p).line), Timeout(Cur(p)), "notshown")
        /\ UNCHANGED <<ip, held>>
     \/ /\ Throw(p, "Error", Cur(p).line)
        /\ Did(p, "expectdash", <<"expect">>, None, 0, "crash")
        /\ UNCHANGED <<ip, held>>
     \/ /\ Throw(p, "Error", Cur(p).line + 5)
        /\ Did(p, "expectdash", <<"expect", "count">>,
               Exception("AssertionError", Cur(p).line), Timeout(Cur(p)), "crash")
        /\ UNCHANGED <<ip, held>>
  /\ Touch(p)
  /\ frame' = [frame EXCEPT ![p] = Frame(p)]
  /\ UNCHANGED <<script, frames, pw, browser, context, closes, runs, rls,
                 sessions,
                app, pages>>

\* the branch TC015 takes on the page content: denied when it holds
\* 'not found' or 'error'; else a warning is printed when an h1 exists
Branch(content) ==
  IF "not found" \in content \/ "error" \in content THEN "denied"
  ELSE IF "h1" \in content THEN "warned"
  ELSE "silent"

\* the awaited page calls of TC015's access check: frame.content(), then
\* frame.locator('h1').count() when the content shows no denial
RlsCalls(content) ==
  IF Branch(content) = "denied" THEN <<"content">> ELSE <<"content", "count">>

\* the matches the access check goes through: all the h1 elements, when it
\* counts them and the page has any
RlsRead(content) ==
  IF Branch(content) = "warned" THEN Resolve("count", app.matches) ELSE {}

\* the access check with the page loaded again before its content is read
RlsCheckReload(p) ==
  /\ AtStmt(p, {"rlscheck"})
  /\ \/ /\ \E content \in SUBSET Tokens :
             /\ rls' = [rls EXCEPT ![p] = Branch(content)]
             /\ RanOn(p, "rlscheck", <<"goto">> \o RlsCalls(content),
                      RlsRead(content))
        /\ Advance(p)
        /\ UNCHANGED <<exc, first>>
     \/ /\ Throw(p, "Error", Cur(p).line)
        /\ Did(p, "rlscheck", <<"goto">>, None, 0, "crash")
        /\ UNCHANGED <<ip, rls>>
  /\ Touch(p)
  /\ frame' = [frame EXCEPT ![p] = Frame(p)]
  /\ UNCHANGED <<script, frames, pw, browser, context, closes, runs, sessions,
                 held,
                app, pages>>

\* TC015: page_content = await frame.content(); if ... print(SUCCESS)
\* else: if await frame.locator('h1').count() > 0: print(WARNING)
RlsCheck(p) ==
  /\ AtStmt(p, {"rlscheck"})
  /\ \/ /\ \E content \in SUBSET Tokens :
             /\ rls' = [rls EXCEPT ![p] = Branch(content)]
             /\ RanOn(p, "rlscheck", RlsCalls(content), RlsRead(content))
        /\ Advance(p)
        /\ UNCHANGED <<exc, first>>
     \/ /\ Throw(p, "Error", Cur(p).line)
        /\ Did(p, "rlscheck", <<"content">>, None, 0, "crash")
        /\ UNCHANGED <<ip, rls>>
     \/ /\ Throw(p, "Error", Cur(p).line + 7)
        /\ Did(p, "rlscheck", <<"content", "count">>, None, 0, "crash")
        /\ UNCHANGED <<ip, rls>>
  /\ Touch(p)
  /\ frame' = [frame EXCEPT ![p] = Frame(p)]
  /\ UNCHANGED <<script, frames, pw, browser, context, closes, runs, sessions,
                 held,
                app, pages>>

\* ------------------------------------------------------------ the finally
\* the close placed at the end of the try body instead of the finally block
CloseContextOnReturn(p) ==
  /\ pc[p] = "fin_context"
  /\ IF context[p] # NoHandle /\ exc[p] = None
       THEN /\ Ran(p, "close_context", <<"close">>)
            /\ closes' = [closes EXCEPT ![p].context = @ + 1]
            /\ \/ /\ pc' = [pc EXCEPT ![p] = "fin_browser"]
                  /\ UNCHANGED exc
               \/ ThrowInFinally(p, CloseLine(script[p]))
       ELSE /\ Ran(p, "close_context", <<>>)
            /\ pc' = [pc EXCEPT ![p] = "fin_browser"]
            /\ UNCHANGED <<closes, exc>>
  /\ UNCHANGED <<script, ip, frames, pw, browser, context, first, runs, rls,
                 users, sessions, held,
                app, frame, pages>>

\* a finally block that goes on to the browser without closing the context
CloseContextLeftOut(p) ==
  /\ pc[p] = "fin_context"
  /\ Ran(p, "close_context", <<>>)
  /\ pc' = [pc EXCEPT ![p] = "fin_browser"]
  /\ UNCHANGED <<script, ip, frames, pw, browser, context, exc, first, closes,
                 runs, rls, users, sessions, held, app, frame, pages>>

\* if context: await context.close()
CloseContext(p) ==
  /\ pc[p] = "fin_context"
  /\ IF context[p] # NoHandle
       THEN /\ Ran(p, "close_context", <<"close">>)
            /\ closes' = [closes EXCEPT ![p].context = @ + 1]
            /\ \/ /\ pc' = [pc EXCEPT ![p] = "fin_browser"]
                  /\ UNCHANGED exc
               \/ ThrowInFinally(p, CloseLine(script[p]))
       ELSE /\ Ran(p, "close_context", <<>>)
            /\ pc' = [pc EXCEPT ![p] = "fin_browser"]
            /\ UNCHANGED <<closes, exc>>
  /\ UNCHANGED <<script, ip, frames, pw, browser, context, first, runs, rls,
                 users, sessions, held,
                app, frame, pages>>

\* if browser: await browser.close()
CloseBrowser(p) ==
  /\ pc[p] = "fin_browser"
  /\ IF browser[p] # NoHandle
       THEN /\ Ran(p, "close_browser", <<"close">>)
            /\ closes' = [closes EXCEPT ![p].browser = @ + 1]
            /\ \/ /\ pc' = [pc EXCEPT ![p] = "fin_pw"]
                  /\ UNCHANGED exc
               \/ ThrowInFinally(p, CloseLine(script[p]) + 2)
       ELSE /\ Ran(p, "close_browser", <<>>)
            /\ pc' = [pc EXCEPT ![p] = "fin_pw"]
            /\ UNCHANGED <<closes, exc>>
  /\ UNCHANGED <<script, ip, frames, pw, browser, context, first, runs, rls,
                 users, sessions, held,
                app, frame, pages>>

\* if pw: await pw.stop(); then run_test returns or re-raises
StopPw(p) ==
  /\ pc[p] = "fin_pw"
  /\ IF pw[p] # NoHandle
       THEN /\ Ran(p, "stop_pw", <<"close">>)
            /\ closes' = [closes EXCEPT ![p].pw = @ + 1]
            /\ \/ /\ pc' = [pc EXCEPT ![p] = "done"]
                  /\ UNCHANGED exc
               \/ ThrowInFinally(p, CloseLine(script[p]) + 4)
       ELSE /\ Ran(p, "stop_pw", <<>>)
            /\ pc' = [pc EXCEPT ![p] = "done"]
            /\ UNCHANGED <<closes, exc>>
  /\ UNCHANGED <<script, ip, frames, pw, browser, context, first, runs, rls,
                 users, sessions, held,
                app, frame, pages>>

\* ------------------------------------------------------- specifications
InitOf(suite, apps) ==
  /\ script \in suite
  /\ pc = [p \in DOMAIN script |-> "init"]
  /\ ip = [p \in DOMAIN script |-> 1]
  /\ frames = [p \in DOMAIN script |-> 0]
  /\ pw = [p \in DOMAIN script |-> NoHandle]
  /\ browser = [p \in DOMAIN script |-> NoHandle]
  /\ context = [p \in DOMAIN script |-> NoHandle]
  /\ exc = [p \in DOMAIN script |-> None]
  /\ first = [p \in DOMAIN script |-> None]
  /\ closes = [p \in DOMAIN script |-> NoCloses]
  /\ runs = [p \in DOMAIN script |-> 0]
  /\ rls = [p \in DOMAIN script |-> "unchecked"]
  /\ users = [p \in DOMAIN script |-> {}]
  /\ sessions = ExpectedCount
  /\ last = [p \in DOMAIN script |-> NoStep]
  /\ held = [p \in DOMAIN script |-> {}]
  /\ app \in apps
  /\ pages = [p \in DOMAIN script |-> 0]
  /\ frame = [p \in DOMAIN script |-> 0]

\* one process executing any one of the nine scripts
Init == InitOf([{1} -> Scenarios], Apps)

\* the scripts that share the account's session count, two at a time
ParSuite == {"TC001", "TC004"}

InitPar == InitOf([{1, 2} -> ParSuite], {PlainApp})

Next ==
  \/ \E p \in Procs : Start(p)
  \/ \E p \in Procs : PwStart(p)
  \/ \E p \in Procs : Launch(p)
  \/ \E p \in Procs : NewContext(p)
  \/ \E p \in Procs : NewPage(p)
  \/ \E p \in Procs : Goto(p)
  \/ \E p \in Procs : WaitLoad(p)
  \/ \E p \in Procs : WaitFrame(p)
  \/ \E p \in Procs : Act(p)
  \/ \E p \in Procs : Wheel(p)
  \/ \E p \in Procs : GotoStmt(p)
  \/ \E p \in Procs : Sleep(p)
  \/ \E p \in Procs : Expect(p)
  \/ \E p \in Procs : ExpectMsg(p)
  \/ \E p \in Procs : ExpectDash(p)
  \/ \E p \in Procs : RlsCheck(p)
  \/ \E p \in Procs : CloseContext(p)
  \/ \E p \in Procs : CloseBrowser(p)
  \/ \E p \in Procs : StopPw(p)

\* the statements TC001 and TC004 are made of
NextPar ==
  \/ \E p \in Procs : Start(p)
  \/ \E p \in Procs : PwStart(p)
  \/ \E p \in Procs : Launch(p)
  \/ \E p \in Procs : NewContext(p)
  \/ \E p \in Procs : NewPage(p)
  \/ \E p \in Procs : Goto(p)
  \/ \E p \in Procs : WaitLoad(p)
  \/ \E p \in Procs : WaitFrame(p)
  \/ \E p \in Procs : Act(p)
  \/ \E p \in Procs : Sleep(p)
  \/ \E p \in Procs : Expect(p)
  \/ \E p \in Procs : ExpectMsg(p)
  \/ \E p \in Procs : CloseContext(p)
  \/ \E p \in Procs : CloseBrowser(p)
  \/ \E p \in Procs : StopPw(p)

Spec == Init /\ [][Next]_vars

\* asyncio.run(run_test()) drives the coroutine until it is left: whenever a
\* step of the script can be taken, the event loop takes one, every awaited
\* browser call returning or raising within its timeout
SpecLive == Spec /\ WF_vars(Next)

SpecPar == InitPar /\ [][NextPar]_vars

\* ------------------------------------------------------------ properties
\* C1: on every exit path of run_test the context created by
\* browser.new_context() has close() called on it exactly once: a process
\* that holds no context never calls it, no process calls it twice, and a
\* finished process that holds a context has called it once.
C1_ContextClosedOnce ==
  \A p \in Procs :
    /\ closes[p].context <= 1
    /\ context[p] = NoHandle => closes[p].context = 0
    /\ pc[p] = "done" /\ context[p] # NoHandle => closes[p].context = 1

\* a run left by a failed step or assertion whose context was closed once
C1_Witness ==
  \E p \in Procs :
    /\ pc[p] = "done"
    /\ first[p] # None /\ first[p].line >= 48
    /\ closes[p].context = 1

\* C2: a run ends with exactly one outcome: the outcome with which control
\* left the try body is the outcome the run ends with, never replaced by
\* an outcome raised during release.
C2_OneResult ==
  \A p \in Procs :
    pc[p] = "done" /\ first[p] # None => exc[p] = first[p]

\* C8: run_test is invoked once per process and never again, whatever the
\* outcome: no run after Passed, Failed or Errored.
C8_ExecutedOnce ==
  \A p \in Procs :
    /\ runs[p] <= 1
    /\ pc[p] # "init" => runs[p] = 1

\* a run that ended Errored and was not started again
C8_Witness ==
  \E p \in Procs :
    pc[p] = "done" /\ Result(p) = "Errored" /\ runs[p] = 1


\* C3 (as amended): a scenario moves Pending -> Running -> {Passed, Failed,
\* Errored}, or from Pending straight to Failed or Errored when starting
\* the driver, launching the browser or creating the context raises; the
\* step Pending -> Running allocates exactly one context, a terminal state
\* is never left, and statements execute only while Running.
C3_StateMachine ==
  [][\A p \in Procs :
       /\ Status(p) = "Pending" =>
            Status(p)' \in {"Pending", "Running", "Failed", "Errored"}
       /\ Status(p) = "Running" => Status(p)' \in {"Running"} \cup Terminal
       /\ Status(p) \in Terminal => Status(p)' = Status(p)
       /\ Status(p) = "Pending" /\ Status(p)' = "Running" =>
            /\ context'[p] = Handle("context", p)
            /\ \A q \in Procs \ {p} : context'[q] = context[q]
       /\ ip'[p] # ip[p] => Status(p) = "Running" /\ Status(p)' = "Running"
    ]_vars

\* a run that ended without ever holding a context
C3_Witness ==
  \E p \in Procs :
    pc[p] = "done" /\ context[p] = NoHandle /\ Result(p) \in {"Failed", "Errored"}

\* C3 (as stated): a terminal state is entered from Running only.
C3_OnlyViaRunning ==
  [][\A p \in Procs :
       /\ Status(p) = "Pending" => Status(p)' \in {"Pending", "Running"}
       /\ Status(p) = "Running" => Status(p)' \in {"Running"} \cup Terminal
       /\ Status(p) \in Terminal => Status(p)' = Status(p)
       /\ ip'[p] # ip[p] => Status(p) = "Running"
    ]_vars

\* C4: statements execute in script order, and once a step has raised or
\* a check has not held no later statement of that scenario executes.
C4_FirstFailureEnds ==
  [][\A p \in Procs :
       /\ ip'[p] \in {ip[p], ip[p] + 1}
       /\ exc[p] # None \/ rls[p] \notin {"unchecked", "denied"} =>
            ip'[p] = ip[p]
    ]_vars

\* C5: a run whose first check did not hold never ends Passed (the claim
\* says more, that it ends Failed; this is the part every reading shares).
C5_FirstAssertFailedNotPassed ==
  \A p \in Procs :
    pc[p] = "done" /\ FirstAssertFailed(p) => Result(p) # "Passed"

\* C6: TC015 ends Passed only if its access check found User A denied.
C6_PassedOnlyIfDenied ==
  \A p \in Procs :
    script[p] = "TC015" /\ pc[p] = "done" /\ Result(p) = "Passed" =>
      rls[p] = "denied"

\* C7: the outcome follows the cause: a step or assertion of the body that
\* timed out (TimeoutError, AssertionError) ends the run Failed, a fault
\* of the automation library (any other Error) ends it Errored.
C7_OutcomeByCause ==
  \A p \in Procs :
    pc[p] = "done" =>
      /\ first[p].type \in {"AssertionError", "TimeoutError"} /\ first[p].line >= 48
           => Result(p) = "Failed"
      /\ first[p].type = "Error" => Result(p) = "Errored"


C10_NoSharedSession ==
  \A p \in Procs :
    /\ pw[p] # NoHandle => pw[p].by = p
    /\ browser[p] # NoHandle => browser[p].by = p
    /\ context[p] # NoHandle => context[p].by = p
    /\ users[p] \subseteq {p}

\* two runs in progress at once, each acting through its own context
C10_Witness ==
  /\ Cardinality(Procs) = 2
  /\ \A p \in Procs : pc[p] = "body" /\ ip[p] > 1 /\ users[p] = {p}

\* the next step of process p, whatever it is
StepOf(p) ==
  \/ Start(p) \/ PwStart(p) \/ Launch(p) \/ NewContext(p) \/ NewPage(p)
  \/ Goto(p) \/ WaitLoad(p) \/ WaitFrame(p)
  \/ Act(p) \/ Wheel(p) \/ GotoStmt(p) \/ Sleep(p)
  \/ Expect(p) \/ ExpectMsg(p) \/ ExpectDash(p) \/ RlsCheck(p)
  \/ CloseContext(p) \/ CloseBrowser(p) \/ StopPw(p)

\* C11: the scripts are separate processes that share no variable of the
\* harness, so whatever the other processes did - raised, failed, finished -
\* a process that has not left run_test can always take its next step: none
\* of its steps waits for, or is cancelled by, another process.
C11_NeverBlocked == \A p \in Procs : pc[p] # "done" => ENABLED StepOf(p)

\* one script ended with an exception and the other one ran to Passed
C11_Witness ==
  \E p, q \in Procs :
    /\ p # q
    /\ pc[p] = "done" /\ Result(p) = "Passed"
    /\ pc[q] = "done" /\ Result(q) # "Passed"
    /\ first[q].line = 15

\* the exit code of the process: asyncio.run(run_test()) is the last statement
\* of the module, so the interpreter exits with 0 when run_test returned and
\* with 1 when an exception left it
ExitCode(p) == IF exc[p] = None THEN 0 ELSE 1

\* lines of the checking statements of script s that raise when they fail
Assertions(s) ==
  {Body(s)[i].line : i \in {j \in 1..Len(Body(s)) :
                               Body(s)[j].op \in {"expect", "expectmsg", "expectdash"}}}

\* C12: a finished process that did not end Passed exits with a non-zero
\* code, and one that exits with zero executed every statement, saw every
\* assertion hold and, for TC015, saw the access to the other user's
\* session denied.
C12_ExitCode ==
  \A p \in Procs :
    pc[p] = "done" =>
      /\ Result(p) # "Passed" => ExitCode(p) # 0
      /\ ExitCode(p) = 0 =>
            /\ ip[p] = Len(Body(script[p])) + 1
            /\ Assertions(script[p]) \subseteq held[p]
            /\ rls[p] \in {"unchecked", "denied"}

\* C13: whenever an except clause of a script has caught an exception, an
\* exception is propagating out of run_test when the clause is left (the one
\* caught, or one raised from the clause, which carries the caught one as
\* its context), so the fault reaches the process's result.
C13_CaughtIsReported ==
  \A p \in Procs : last[p].caught # None => exc[p] # None

\* the exception that an except clause of script s had caught when e was
\* raised from inside it (Python keeps it as the context of e): the
\* `raise AssertionError(..)` two lines below a wrapped expect, and in TC015
\* the count() and the two raises of the dashboard handler
ContextOf(s, e) ==
  LET RaisedFrom(i) ==
        \/ /\ Body(s)[i].op = "expectmsg"
           /\ e = Exception("AssertionError", Body(s)[i].line + 2)
        \/ /\ Body(s)[i].op = "expectdash"
           /\ e \in {Exception("Error", Body(s)[i].line + 5),
                     Exception("AssertionError", Body(s)[i].line + 6),
                     Exception("AssertionError", Body(s)[i].line + 7)}
  IN IF \E i \in 1..Len(Body(s)) : RaisedFrom(i)
       THEN Exception("AssertionError",
                      Body(s)[CHOOSE i \in 1..Len(Body(s)) : RaisedFrom(i)].line)
       ELSE None

\* statements that go through a locator
LocatorOps == {"click", "fill", "expect", "expectmsg", "expectdash"}

\* the exceptions the traceback of a finished process shows: the one that
\* left run_test, the one that left the try body when a call of the finally
\* block replaced it, and the one caught by the handler that raised it
Report(p) == {exc[p], first[p], ContextOf(script[p], first[p])} \ {None}

\* exception e was raised by the library on a locator statement of script s:
\* its traceback entry gives the statement's line and its message the call
\* log with the locator waited for
NamesLocator(s, e) ==
  /\ e.type \in {"TimeoutError", "AssertionError"}
  /\ \E i \in 1..Len(Body(s)) :
       Body(s)[i].line = e.line /\ Body(s)[i].op \in LocatorOps

\* a locator statement of p timed out or an assertion of p failed
StepFailed(p) ==
  /\ first[p].type \in {"TimeoutError", "AssertionError"}
  /\ first[p].line > 46
  /\ Cur(p).op \in LocatorOps

\* C14: when a locator statement timed out or an assertion failed, what the
\* process reports holds an exception that names that statement and its
\* locator; and when TC015's access check found no denial, the check is
\* reported the same way, by an exception raised at the check (line 82).
C14_FailureNamesStep ==
  \A p \in Procs :
    /\ StepFailed(p) =>
          \E e \in Report(p) :
            NamesLocator(script[p], e) /\ e.line = Cur(p).line
    /\ rls[p] \in {"warned", "silent"} => \E e \in Report(p) : e.line = 82

\* calls that act on the page as a user does, and calls that only wait
UserActions == {"click", "fill", "wheel", "goto"}

Waits == {"wait", "sleep", "load"}

\* the call awaited just before the i-th call of p's last statement
Before(p, i) == IF i = 1 THEN last[p].prev ELSE last[p].calls[i - 1]

\* C15 as stated: every click, fill, wheel scroll and goto made after the
\* first call of a script has a wait as the call awaited just before it
C15_EveryActionWaits ==
  \A p \in Procs : \A i \in 1..Len(last[p].calls) :
    (last[p].calls[i] \in UserActions /\ Before(p, i) # "none")
      => Before(p, i) \in Waits

\* C15: every click and fill has page.wait_for_timeout as the call awaited
\* just before it, inside the same statement; a wheel scroll or a goto
\* statement awaits no wait of its own.
C15_ClickFillWait ==
  \A p \in Procs :
    /\ \A i \in 1..Len(last[p].calls) :
         last[p].calls[i] \in {"click", "fill"} => Before(p, i) = "wait"
    /\ last[p].stmt \in {"wheel", "evalwheel", "goto"} =>
         \A i \in 1..Len(last[p].calls) : last[p].calls[i] \notin Waits

\* a click that returned, made right after a wheel scroll that had followed
\* another click without any wait in between
C15_Witness ==
  \E p \in Procs :
    /\ last[p].calls = <<"wait", "click">>
    /\ last[p].prev = "wheel"
    /\ exc[p] = None

\* the text written on the statement of script s at line l: what a fill
\* types, what an expect looks for
TextAt(s, l) == Body(s)[CHOOSE i \in 1..Len(Body(s)) : Body(s)[i].line = l].text

\* lines of the fill statements of p that returned
Entered(p) ==
  {Body(script[p])[i].line :
     i \in {j \in 1..(ip[p] - 1) : Body(script[p])[j].op = "fill"}}

\* C16: when TC001 ends Passed, the assertions of lines 117 and 118 held
\* (the page showed the email typed at sign-up and 'Sign Out' within the
\* 30 s of each expect, after the sign-in form of lines 100-112 was sent);
\* the sign-in typed the email and the password typed at sign-up, and the
\* password typed at sign-up equals its confirmation.
C16_SignUpThenSignIn ==
  \A p \in Procs :
    (script[p] = "TC001" /\ pc[p] = "done" /\ Result(p) = "Passed") =>
      /\ {117, 118} \subseteq held[p]
      /\ TextAt("TC001", 117) = TextAt("TC001", 67)
      /\ TextAt("TC001", 118) = "Sign Out"
      /\ {67, 73, 79, 100, 106} \subseteq Entered(p)
      /\ TextAt("TC001", 100) = TextAt("TC001", 67)
      /\ TextAt("TC001", 106) = TextAt("TC001", 73)
      /\ TextAt("TC001", 79) = TextAt("TC001", 73)

\* TC001 ran to its end and every assertion held
C16_Witness ==
  \E p \in Procs :
    /\ script[p] = "TC001" /\ pc[p] = "done" /\ Result(p) = "Passed"
    /\ Assertions("TC001") \subseteq held[p]

\* C17: when one of TC010's two final assertions (line 168, the full edited
\* text; line 169, the search term) raised AssertionError the script ends
\* Failed, and it ends Passed only if both held.
C17_TranscriptOutcome ==
  \A p \in Procs :
    (script[p] = "TC010" /\ pc[p] = "done") =>
      /\ first[p] \in {Exception("AssertionError", 168),
                       Exception("AssertionError", 169)}
           => Result(p) = "Failed"
      /\ Result(p) = "Passed" => {168, 169} \subseteq held[p]

\* C18: a click or fill whose locator matches no element raises
\* TimeoutError at its own line when its timeout of 5000 ms has expired
\* (the timeout= written on a click, the context's default for a fill),
\* after the statement's wait and never before; the statement does not
\* return, the try body is left, and nothing else differs from run to run.
C18_NotFoundTimesOut ==
  \A p \in Procs :
    last[p].cause = "notfound" =>
      /\ last[p].expired = 5000
      /\ last[p].calls = ActCalls(Cur(p))
      /\ exc[p] = Exception("TimeoutError", Cur(p).line)
      /\ first[p] = exc[p]
      /\ pc[p] = "fin_context"

\* TC001's fill of line 67, which names no timeout, found no element
C18_Witness ==
  \E p \in Procs :
    /\ script[p] = "TC001" /\ ip[p] = 3
    /\ last[p].stmt = "fill" /\ last[p].cause = "notfound"

\* the steps left to a process once an exception has left its try body
ReleaseSteps == {"close_context", "close_browser", "stop_pw"}

\* C19: a click or fill on an element that is found but never actionable
\* raises TimeoutError at its line once its 5000 ms have expired; a process
\* in which a click or fill timed out does not end Passed; and once an
\* exception has left the try body no statement of the body is executed
\* again: the process only releases what it holds.
C19_ActionTimeout ==
  /\ [](\A p \in Procs :
         /\ last[p].cause = "notactionable" =>
              /\ last[p].expired = 5000
              /\ exc[p] = Exception("TimeoutError", Cur(p).line)
         /\ (pc[p] = "done" /\ first[p].type = "TimeoutError") =>
              Result(p) # "Passed")
  /\ [][\A p \in Procs :
         first[p] # None =>
           /\ ip'[p] = ip[p]
           /\ first'[p] = first[p]
           /\ last'[p] # last[p] => last'[p].stmt \in ReleaseSteps]_vars

\* TC017's click on the theme button (line 56) timed out on an element that
\* was there but not actionable
C19_Witness ==
  \E p \in Procs :
    /\ script[p] = "TC017" /\ ip[p] = 2
    /\ last[p].stmt = "click" /\ last[p].cause = "notactionable"

\* calls that read the page without changing it
ReadCalls == {"expect", "content", "count"}

\* C20: a step that executes an assertion or a check (expect, TC015's
\* access check and its dashboard handler) awaits only calls that read the
\* page - no click, fill, scroll or navigation - and leaves the application's
\* data as it was.
C20_AssertionsReadOnly ==
  [][\A p \in Procs :
       (/\ pc[p] = "body"
        /\ Cur(p).op \in AssertOps
        /\ <<ip[p], pc[p]>>' # <<ip[p], pc[p]>>)
         => /\ sessions' = sessions
            /\ \A i \in 1..Len(last'[p].calls) : last'[p].calls[i] \in ReadCalls]_vars

\* TC015's access check read the content and counted the h1 elements
C20_Witness ==
  \E p \in Procs :
    /\ last[p].stmt = "rlscheck"
    /\ last[p].calls = <<"content", "count">>
    /\ rls[p] = "warned"

\* C21 as stated: whatever statement a process executed, step or check, it
\* went through no match of its locator other than the first
C21_OnlyFirstMatch == \A p \in Procs : last[p].read \subseteq {1}

\* C21: every click and fill (.nth(0)) and every expect (.first) that found
\* its element went through the first match in document order and no other,
\* however many elements the locator matches.
C21_FirstMatch ==
  \A p \in Procs :
    (/\ last[p].stmt \in {"click", "fill", "expect", "expectmsg", "expectdash"}
     /\ last[p].cause \notin {"notfound", "notshown", "crash"})
      => last[p].read = {1}

\* a click that returned on a page where its locator matches several elements
C21_Witness ==
  \E p \in Procs :
    /\ app.matches > 1
    /\ last[p].stmt = "click" /\ last[p].cause = ""
    /\ last[p].read = {1}

\* C22: every click and fill goes through the page that is last in
\* context.pages when the statement runs: `frame` and `elem` are assigned
\* anew before each of them, so none acts through a page or element that an
\* earlier statement resolved and a later click made out of date.
C22_ResolvedAnew ==
  \A p \in Procs :
    last[p].stmt \in {"click", "fill"} =>
      /\ last[p].page = last[p].top
      /\ frame[p] = last[p].top

\* a fill that returned on the second page of its context, which an earlier
\* click had made the application open
C22_Witness ==
  \E p \in Procs :
    /\ last[p].stmt = "fill" /\ last[p].cause = ""
    /\ last[p].top = 2 /\ last[p].page = 2

\* lines of the three release calls of script s
ReleaseLines(s) == {CloseLine(s), CloseLine(s) + 2, CloseLine(s) + 4}

\* C23 as stated: TC005 ends Passed exactly when its assertion of line 152
\* ('Recording session failed to start', timeout=1000) held
C23_PassedIffShown ==
  \A p \in Procs :
    (script[p] = "TC005" /\ pc[p] = "done") =>
      (Result(p) = "Passed" <=> 152 \in held[p])

\* C23: TC005 ends Passed only if the assertion of line 152 held, and when
\* it held TC005 ends Passed unless a release call raised; the assertion
\* follows the click on the ticker-symbol dropdown (line 146) and gives the
\* text 1000 ms; when the text is not shown the handler raises
\* AssertionError at line 154; and TC005 creates no session.
C23_TradingSession ==
  \A p \in Procs :
    script[p] = "TC005" =>
      /\ (pc[p] = "done" /\ Result(p) = "Passed") => 152 \in held[p]
      /\ (pc[p] = "done" /\ 152 \in held[p]) =>
            \/ Result(p) = "Passed"
            \/ exc[p].type = "Error" /\ exc[p].line \in ReleaseLines("TC005")
      /\ last[p].stmt = "expectmsg" =>
            /\ last[p].prev = "click"
            /\ Body("TC005")[ip[p] - (IF exc[p] = None THEN 1 ELSE 0) - 1].line = 146
            /\ last[p].cause = "notshown" =>
                  /\ last[p].expired = 1000
                  /\ exc[p] = Exception("AssertionError", 154)
      /\ sessions = ExpectedCount
      /\ \A i \in 1..Len(Body("TC005")) :
           ~CreatesSession("TC005", Body("TC005")[i].line)

\* TC005 ended Passed having seen the failure text
C23_Witness ==
  \E p \in Procs :
    /\ script[p] = "TC005" /\ pc[p] = "done"
    /\ Result(p) = "Passed" /\ 152 \in held[p]

Leaked(p) ==
  {r \in {"context", "browser", "pw"} :
     \/ r = "context" /\ context[p] # NoHandle /\ closes[p].context = 0
     \/ r = "browser" /\ browser[p] # NoHandle /\ closes[p].browser = 0
     \/ r = "pw" /\ pw[p] # NoHandle /\ closes[p].pw = 0}

\* C25: when run_test has been left, every handle it acquired was passed to
\* its release call, also when an earlier release call raised.
C25_AllReleased == \A p \in Procs : pc[p] = "done" => Leaked(p) = {}

\* the launch of the browser (line 15) or the creation of the context
\* (line 26) raised, after the driver had started
PartWay(p) == first[p].line \in {15, 26}

\* C26: when the launch or new_context raised, run_test is left with the
\* handles acquired until then released, each once, and with no release call
\* made for a handle never acquired; no statement of the body was executed,
\* no assertion held and the run did not end Passed.
C26_PartialAcquisition ==
  \A p \in Procs :
    (pc[p] = "done" /\ PartWay(p)) =>
      /\ Leaked(p) = {}
      /\ closes[p].pw = 1
      /\ closes[p].browser = (IF browser[p] # NoHandle THEN 1 ELSE 0)
      /\ closes[p].context = 0
      /\ ip[p] = 1 /\ held[p] = {} /\ last[p].page = 0
      /\ Result(p) # "Passed"

\* C27: the browser is closed only after the context, if one is held, was
\* closed, and the driver is stopped only after the browser, if one is held,
\* was closed; and once the first release call has been made the process
\* executes nothing but release steps: no statement of the body, no
\* assertion, no wait.
C27_ReverseOrder ==
  /\ [](\A p \in Procs :
         /\ closes[p].browser > 0 =>
              context[p] = NoHandle \/ closes[p].context > 0
         /\ closes[p].pw > 0 =>
              /\ browser[p] = NoHandle \/ closes[p].browser > 0
              /\ context[p] = NoHandle \/ closes[p].context > 0)
  /\ [][\A p \in Procs :
         closes[p] # NoCloses =>
           /\ ip'[p] = ip[p]
           /\ held'[p] = held[p]
           /\ last'[p] # last[p] => last'[p].stmt \in ReleaseSteps]_vars

\* context and browser are closed and the driver is about to be stopped
C27_Witness ==
  \E p \in Procs :
    /\ pc[p] = "fin_pw"
    /\ closes[p] = [context |-> 1, browser |-> 1, pw |-> 0]

\* C28: an error of the wait for DOMContentLoaded, on the page or on a frame,
\* is caught and leaves no exception behind: the process goes on to the
\* remaining frames and then to its first statement, in the state it would be
\* in had the wait returned; an exception of the first page.goto (line 33)
\* leaves the try body with no statement executed, and the run does not end
\* Passed.
C28_LoadErrorsDropped ==
  /\ [](\A p \in Procs :
         /\ (last[p].stmt = "load" /\ last[p].caught # None) =>
              /\ exc[p] = None /\ first[p] = None
              /\ ip[p] = 1
              /\ pc[p] = (IF frames[p] = 0 THEN "body" ELSE "frames")
         /\ first[p].line = 33 =>
              /\ ip[p] = 1 /\ held[p] = {}
              /\ pc[p] = "done" => Result(p) # "Passed")
  /\ [][\A p \in Procs :
         (pc[p] = "frames" /\ <<pc[p], frames[p]>>' # <<pc[p], frames[p]>>) =>
           /\ frames'[p] = frames[p] - 1
           /\ exc'[p] = exc[p]
           /\ pc'[p] = (IF frames[p] = 1 THEN "body" ELSE "frames")]_vars

\* the wait for the last frame raised, and the process stands before its
\* first statement with no exception
C28_Witness ==
  \E p \in Procs :
    /\ last[p].stmt = "load"
    /\ last[p].caught = Exception("Error", 44)
    /\ pc[p] = "body" /\ ip[p] = 1 /\ exc[p] = None


\* C29: in TC004, TC005, TC011, TC012 and TC016, whose last assertion is
\* wrapped in try/except AssertionError, an assertion that did not hold leaves
\* run_test as the AssertionError raised by the handler, a Playwright Error
\* raised by the same expect leaves run_test unchanged, and in both cases the
\* sleep after the assertion is not executed and every acquired handle is
\* released.
C29_WrappedAssertion ==
  \A p \in Procs :
    (/\ pc[p] = "done"
     /\ ip[p] <= Len(Body(script[p]))
     /\ Cur(p).op = "expectmsg"
     /\ first[p] # None
     /\ first[p].line \in {Cur(p).line, Cur(p).line + 2}) =>
      /\ first[p].type = "AssertionError" =>
            exc[p] = Exception("AssertionError", Cur(p).line + 2)
      /\ first[p].type = "Error" => exc[p] = Exception("Error", Cur(p).line)
      /\ exc[p] # None
      /\ \A i \in (ip[p] + 1)..Len(Body(script[p])) :
            Body(script[p])[i].line \notin held[p]
      /\ Leaked(p) = {}

\* C30: every run terminates. Under SpecLive run_test is eventually left for
\* good, with an outcome and with its release block behind it (no release
\* call is left to make), and the frame loop goes once over the frames that
\* were present after the navigation: each pass takes one frame off the list
\* and none is added.
C30_Terminates ==
  /\ <>[](\A p \in Procs :
           /\ pc[p] = "done"
           /\ Status(p) \in Terminal
           /\ ~ ENABLED (CloseContext(p) \/ CloseBrowser(p) \/ StopPw(p)))
  /\ [][\A p \in Procs :
         (pc[p] = "frames" /\ <<pc[p], frames[p], last[p]>>'
                              # <<pc[p], frames[p], last[p]>>) =>
           /\ frames'[p] = frames[p] - 1
           /\ frames[p] \in 1..MaxFrames]_vars

\* TC017 went through its frame loop and its whole body and was left after
\* its three release calls
C30_Witness ==
  \E p \in Procs :
    /\ script[p] = "TC017" /\ pc[p] = "done"
    /\ ip[p] = Len(TC017Body) + 1
    /\ frames[p] = 0
    /\ closes[p] = [pw |-> 1, browser |-> 1, context |-> 1]
====
